---- MODULE Spec2Model ----
(***************************************************************************)
(* uuart: a userspace driver that exercises the memory-mapped VUART of an  *)
(* ASPEED BMC.  The model follows main() of the flag-taking driver         *)
(* statement by statement: mapping the register page, the startup dump,    *)
(* the gated configuration writes, the poll loop with its stall/resume     *)
(* edge detector and the terminating dump and counter report.              *)
(*                                                                         *)
(* The device side is the environment: a read of LSR or RBR returns a      *)
(* value the hardware chooses, clock_gettime() may fail, open() may fail   *)
(* and mmap() may return MAP_FAILED.                                       *)
(***************************************************************************)
EXTENDS Integers, Sequences, FiniteSets, TLC

VARIABLES
    pc,       \* position of main()
    cfg,      \* struct uuart_config
    args,     \* positional arguments argv[optind..argc-1], each a string of characters
    mapped,   \* whether regs points at the mapped register page
    regs,     \* the latched (read/write) registers of the device, by offset
    ier,      \* local ier
    lsr,      \* local lsr
    stall,    \* local stall
    iters,    \* local iters
    i,        \* loop variable i
    txd,      \* local txd
    rxd,      \* local rxd
    bus,      \* every bus event issued so far: loads, stores and barriers
    log,      \* lines written to stderr
    out,      \* bytes written to stdout
    status,   \* exit status of the process, or Running
    samples   \* the LSR values returned to the poll loop so far

vars == <<pc, cfg, args, mapped, regs, ier, lsr, stall, iters, i, txd, rxd,
          bus, log, out, status, samples>>

----------------------------------------------------------------------------
(* Bounds of the exploration *)

\* largest non-negative iteration count given on the command line
MaxIters == 3
\* number of poll iterations explored of a run that was asked to run for ever
MaxPolls == 3

----------------------------------------------------------------------------
(* Register map *)

BIT(x) == 2 ^ x

R_RBR == 0
R_THR == 0
R_IER == 4
IER_ERBFI == BIT(0)
IER_ETBEI == BIT(1)
R_IIR == 8
R_FCR == 8
R_LCR == 12
R_MCR == 16
R_LSR == 20
LSR_DR == BIT(0)
LSR_THRE == BIT(5)
R_MSR == 24
R_GCRA == 32
GCRA_H_TX_CORK == BIT(5)
GCRA_VUART_EN == BIT(0)
R_GCRB == 36
R_VARL == 40
R_VARH == 44
R_GCRE == 48
R_GCRF == 52
R_GCRG == 56
R_GCRH == 60

\* the values written by the configurator and the filler byte 'y'
FCR_RESET_ENABLE == 7
MCR_READY == 11
FILLER == 121

\* exit statuses; Running is a process that has not exited, Faulted one that
\* was killed by a fault on a register pointer that maps nothing
EXIT_SUCCESS == "EXIT_SUCCESS"
EXIT_FAILURE == "EXIT_FAILURE"
Running == "running"
Faulted == "SIGSEGV"

\* txd++ and rxd++ on unsigned long: the counters wrap at 2^32 (or 2^64),
\* which no explored run comes near
Bump(c) == c + 1

Byte == 0 .. 255

----------------------------------------------------------------------------
(* Bit operations on bytes, as C computes them on uint8_t *)

RECURSIVE BitAndN(_, _, _)
BitAndN(a, b, n) ==
    IF n = 0 THEN 0
    ELSE (a % 2) * (b % 2) + 2 * BitAndN(a \div 2, b \div 2, n - 1)

\* a & b on 8-bit operands
BitAnd(a, b) == BitAndN(a, b, 8)

RECURSIVE BitOrN(_, _, _)
BitOrN(a, b, n) ==
    IF n = 0 THEN 0
    ELSE (IF a % 2 = 1 \/ b % 2 = 1 THEN 1 ELSE 0)
         + 2 * BitOrN(a \div 2, b \div 2, n - 1)

\* a | b on 8-bit operands
BitOr(a, b) == BitOrN(a, b, 8)

\* the low byte of ~m, which is what "ier &= ~m" keeps of the mask
BitNot8(m) == 255 - m

----------------------------------------------------------------------------
(* Command line: atoi() of the positional argument *)

Digits == <<"0", "1", "2", "3", "4", "5", "6", "7", "8", "9">>

IsDigit(c) == \E d \in 1 .. 10 : Digits[d] = c

DigitVal(c) == (CHOOSE d \in 1 .. 10 : Digits[d] = c) - 1

RECURSIVE AtoiAcc(_, _, _)
AtoiAcc(s, k, acc) ==
    IF k > Len(s) \/ ~IsDigit(s[k]) THEN acc
    ELSE AtoiAcc(s, k + 1, acc * 10 + DigitVal(s[k]))

\* atoi(): optional sign, then the leading run of decimal digits; 0 if none
Atoi(s) ==
    IF s = <<>> THEN 0
    ELSE IF s[1] = "-" THEN 0 - AtoiAcc(s, 2, 0)
    ELSE IF s[1] = "+" THEN AtoiAcc(s, 2, 0)
    ELSE AtoiAcc(s, 1, 0)

RECURSIVE DecStr(_)
DecStr(n) ==
    IF n < 10 THEN <<Digits[n + 1]>>
    ELSE DecStr(n \div 10) \o <<Digits[(n % 10) + 1]>>

\* the count arguments explored: 0 .. MaxIters, a negative count and a
\* string that is no number
CountArgs ==
    {DecStr(n) : n \in 0 .. MaxIters} \cup {<<"-", "1">>, <<"x">>}

----------------------------------------------------------------------------
(* Register accessors *)

Ev(op, off, val) == [op |-> op, off |-> off, val |-> val]

Mb == Ev("mb", 0, 0)

\* offsets whose register latches what is written to it and reads it back;
\* THR and FCR share their offsets with the read-only RBR and IIR
Latched == {R_IER, R_LCR, R_MCR, R_GCRA, R_GCRB, R_VARL, R_VARH,
            R_GCRE, R_GCRF, R_GCRG, R_GCRH}

\* bus events of one readb(): the byte load, then the barrier
readbTrace(off) == <<Ev("r", off, 0), Mb>>

\* a store that is not followed by mb()
writebTraceNoBarrier(off, val) == <<Ev("w", off, val)>>

\* bus events of one writeb(): the byte store, then the barrier
writebTrace(off, val) == <<Ev("w", off, val), Mb>>

readb(off) == bus' = bus \o readbTrace(off)

writeb(off, val) ==
    /\ bus' = bus \o writebTrace(off, val)
    /\ regs' = IF off \in Latched THEN [regs EXCEPT ![off] = val] ELSE regs

\* a dump that reads the receive buffer as well
DumpOffsetsWithRbr ==
    <<R_RBR, R_IER, R_IIR, R_LCR, R_MCR, R_LSR, R_MSR, R_GCRA, R_GCRB,
      R_VARL, R_VARH, R_GCRE, R_GCRF, R_GCRG, R_GCRH>>

\* the fourteen reads of dump_regs(), in its order
DumpOffsets == <<R_IER, R_IIR, R_LCR, R_MCR, R_LSR, R_MSR, R_GCRA, R_GCRB,
                 R_VARL, R_VARH, R_GCRE, R_GCRF, R_GCRG, R_GCRH>>

RECURSIVE DumpTrace(_)
DumpTrace(k) ==
    IF k = 0 THEN <<>>
    ELSE DumpTrace(k - 1) \o readbTrace(DumpOffsets[k])

\* a line on stderr: its kind, the iteration index or count it carries and
\* the register or counter value it carries
Line(kind, idx, val) == [kind |-> kind, idx |-> idx, val |-> val]

\* dump_regs() after its header line: fourteen loads, and the lines it prints,
\* kept as one record of the latched registers' values (the values printed
\* for the status registers IIR, LSR and MSR are the device's and not kept)
dump_regs(header) ==
    /\ bus' = bus \o DumpTrace(Len(DumpOffsets))
    /\ log' = log \o <<Line(header, 0, 0), Line("registers", 0, regs)>>

----------------------------------------------------------------------------
(* Values the environment supplies *)

\* LSR values the device returns: idle, DR, THRE, DR|THRE, and OE|TEMT,
\* which sets bits but neither DR nor THRE
LsrSamples == {0, 1, 32, 33, 66}

\* bytes the device returns from RBR
RbrBytes == {0, 165}

\* initial IER contents of the runs of the poll loop
IerLoop == {15}

Flags == [assume_dtr : BOOLEAN, assume_enabled : BOOLEAN,
          assume_fifos : BOOLEAN, ignore_rx : BOOLEAN, ignore_tx : BOOLEAN]

RegsInit(ierv, mcrv, gcrav) ==
    [o \in Latched |->
        IF o = R_IER THEN ierv
        ELSE IF o = R_MCR THEN mcrv
        ELSE IF o = R_GCRA THEN gcrav
        ELSE 0]

InitLocals ==
    /\ pc = "open"
    /\ mapped = FALSE
    /\ ier = 0
    /\ lsr = 0
    /\ stall = FALSE
    /\ iters = 0
    /\ i = 0
    /\ txd = 0
    /\ rxd = 0
    /\ bus = <<>>
    /\ log = <<>>
    /\ out = <<>>
    /\ status = Running
    /\ samples = <<>>

\* flag combinations whose three assume flags agree
TiedFlags ==
    {c \in Flags : c.assume_dtr = c.assume_enabled
                   /\ c.assume_enabled = c.assume_fifos}

\* The runs explored: the configurator for every flag combination (no count,
\* a count of 0, a count of 1 with its single iteration); the poll loop for
\* every count, every combination of the ignore flags and the assume flags
\* all clear or all set; the configurator from every value of IER.
Init ==
    /\ InitLocals
    /\ \/ /\ cfg \in Flags
          /\ args \in {<<>>, <<DecStr(0)>>, <<DecStr(1)>>, <<<<"x">>>>}
          /\ \E v \in IerLoop : regs = RegsInit(v, 0, 0)
       \/ /\ cfg \in TiedFlags
          /\ args \in {<<a>> : a \in CountArgs}
          /\ \E v \in IerLoop : regs = RegsInit(v, 0, 0)
       \/ /\ cfg \in TiedFlags
          /\ args = <<DecStr(0)>>
          /\ \E v \in Byte : regs = RegsInit(v, 8, 1)

----------------------------------------------------------------------------
(* main() *)

\* err(EXIT_FAILURE, what): a line on stderr, then exit
Err(what) ==
    /\ log' = Append(log, Line(what, 0, 0))
    /\ status' = EXIT_FAILURE
    /\ pc' = "exited"

\* fd = open("/dev/mem", ...); if (fd == -1) err(EXIT_FAILURE, "open");
OpenMem ==
    /\ pc = "open"
    /\ \E fd \in {-1, 3} :
          IF fd = -1
          THEN Err("err: open")
          ELSE /\ pc' = "mmap"
               /\ UNCHANGED <<log, status>>
    /\ UNCHANGED <<cfg, args, mapped, regs, ier, lsr, stall, iters, i, txd,
                   rxd, bus, out, samples>>

\* regs = mmap(...); if (!regs) err(EXIT_FAILURE, "mmap");
\* mmap() reports failure as MAP_FAILED, which is not a null pointer
MapRegs ==
    /\ pc = "mmap"
    /\ \E r \in {"page", "MAP_FAILED"} :
          IF r = "NULL"
          THEN /\ Err("err: mmap")
               /\ UNCHANGED mapped
          ELSE /\ mapped' = (r = "page")
               /\ pc' = "startup"
               /\ UNCHANGED <<log, status>>
    /\ UNCHANGED <<cfg, args, regs, ier, lsr, stall, iters, i, txd, rxd, bus,
                   out, samples>>

\* fprintf(stderr, "Startup configuration\n"); dump_regs(regs);
\* the first load through a pointer that maps nothing faults
StartupDump ==
    /\ pc = "startup"
    /\ IF mapped
       THEN /\ dump_regs("Startup configuration")
            /\ pc' = "args"
            /\ UNCHANGED status
       ELSE /\ log' = Append(log, Line("Startup configuration", 0, 0))
            /\ status' = Faulted
            /\ pc' = "exited"
            /\ UNCHANGED bus
    /\ UNCHANGED <<cfg, args, mapped, regs, ier, lsr, stall, iters, i, txd,
                   rxd, out, samples>>

\* the configurator entered without a look at the argument count
CheckArgsNoExit ==
    /\ pc = "args"
    /\ pc' = "enable"
    /\ UNCHANGED <<cfg, args, mapped, regs, ier, lsr, stall, iters, i, txd,
                   rxd, bus, log, out, status, samples>>

\* if (optind == argc) exit(EXIT_SUCCESS);
CheckArgs ==
    /\ pc = "args"
    /\ IF args = <<>>
       THEN /\ status' = EXIT_SUCCESS
            /\ pc' = "exited"
       ELSE /\ pc' = "enable"
            /\ UNCHANGED status
    /\ UNCHANGED <<cfg, args, mapped, regs, ier, lsr, stall, iters, i, txd,
                   rxd, bus, log, out, samples>>

\* the enable step gated by the flag of the FIFO step
EnableVuartByFifos ==
    /\ pc = "enable"
    /\ IF ~cfg.assume_fifos
       THEN writeb(R_GCRA, BitOr(GCRA_VUART_EN, GCRA_H_TX_CORK))
       ELSE UNCHANGED <<bus, regs>>
    /\ pc' = "ier"
    /\ UNCHANGED <<cfg, args, mapped, ier, lsr, stall, iters, i, txd, rxd,
                   log, out, status, samples>>

\* if (!cfg.assume_enabled) writeb(regs, R_GCRA, GCRA_VUART_EN | GCRA_H_TX_CORK);
EnableVuart ==
    /\ pc = "enable"
    /\ IF ~cfg.assume_enabled
       THEN writeb(R_GCRA, BitOr(GCRA_VUART_EN, GCRA_H_TX_CORK))
       ELSE UNCHANGED <<bus, regs>>
    /\ pc' = "ier"
    /\ UNCHANGED <<cfg, args, mapped, ier, lsr, stall, iters, i, txd, rxd,
                   log, out, status, samples>>

\* the IER value without the collapse to 0
IerValueNoCollapse(v, c) ==
    LET a == IF ~c.ignore_tx THEN BitAnd(v, BitNot8(IER_ETBEI)) ELSE v
    IN  IF ~c.ignore_rx THEN BitAnd(a, BitNot8(IER_ERBFI)) ELSE a

\* the value main() computes for IER from the value v it read
IerValue(v, c) ==
    LET a == IF ~c.ignore_tx THEN BitAnd(v, BitNot8(IER_ETBEI)) ELSE v
        b == IF ~c.ignore_rx THEN BitAnd(a, BitNot8(IER_ERBFI)) ELSE a
    IN  IF BitAnd(b, BitOr(IER_ETBEI, IER_ERBFI)) = 0 THEN 0 ELSE b

\* ier = readb(regs, R_IER); ...; writeb(regs, R_IER, ier);
ConfigureIer ==
    /\ pc = "ier"
    /\ ier' = IerValue(regs[R_IER], cfg)
    /\ bus' = bus \o readbTrace(R_IER) \o writebTrace(R_IER, ier')
    /\ regs' = [regs EXCEPT ![R_IER] = ier']
    /\ pc' = "fifos"
    /\ UNCHANGED <<cfg, args, mapped, lsr, stall, iters, i, txd, rxd, log,
                   out, status, samples>>

\* the FIFO reset done whatever the flag says
ResetFifosAlways ==
    /\ pc = "fifos"
    /\ writeb(R_FCR, FCR_RESET_ENABLE)
    /\ pc' = "dtr"
    /\ UNCHANGED <<cfg, args, mapped, ier, lsr, stall, iters, i, txd, rxd,
                   log, out, status, samples>>

\* if (!cfg.assume_fifos) writeb(regs, R_FCR, 0x07);
ResetFifos ==
    /\ pc = "fifos"
    /\ IF ~cfg.assume_fifos
       THEN writeb(R_FCR, FCR_RESET_ENABLE)
       ELSE UNCHANGED <<bus, regs>>
    /\ pc' = "dtr"
    /\ UNCHANGED <<cfg, args, mapped, ier, lsr, stall, iters, i, txd, rxd,
                   log, out, status, samples>>

\* the FIFO reset issued again after the modem-control write
IndicateReadyThenFifos ==
    /\ pc = "dtr"
    /\ bus' = bus \o (IF ~cfg.assume_dtr
                      THEN writebTrace(R_MCR, MCR_READY) ELSE <<>>)
                 \o writebTrace(R_FCR, FCR_RESET_ENABLE)
    /\ regs' = IF ~cfg.assume_dtr
               THEN [regs EXCEPT ![R_MCR] = MCR_READY] ELSE regs
    /\ pc' = "initialised"
    /\ UNCHANGED <<cfg, args, mapped, ier, lsr, stall, iters, i, txd, rxd,
                   log, out, status, samples>>

\* if (!cfg.assume_dtr) writeb(regs, R_MCR, 0x0b);
IndicateReady ==
    /\ pc = "dtr"
    /\ IF ~cfg.assume_dtr
       THEN writeb(R_MCR, MCR_READY)
       ELSE UNCHANGED <<bus, regs>>
    /\ pc' = "initialised"
    /\ UNCHANGED <<cfg, args, mapped, ier, lsr, stall, iters, i, txd, rxd,
                   log, out, status, samples>>

\* the header of the second dump printed without the dump
InitialisedHeaderOnly ==
    /\ pc = "initialised"
    /\ log' = Append(log, Line("Initialised configuration", 0, 0))
    /\ pc' = "start"
    /\ UNCHANGED <<cfg, args, mapped, regs, ier, lsr, stall, iters, i, txd,
                   rxd, bus, out, status, samples>>

\* fprintf(stderr, "Initialised configuration\n"); dump_regs(regs);
InitialisedDump ==
    /\ pc = "initialised"
    /\ dump_regs("Initialised configuration")
    /\ pc' = "start"
    /\ UNCHANGED <<cfg, args, mapped, regs, ier, lsr, stall, iters, i, txd,
                   rxd, out, status, samples>>

\* a loop entered in the Stalled state
StartLoopStalled ==
    /\ pc = "start"
    /\ stall' = TRUE
    /\ iters' = Atoi(args[1])
    /\ log' = Append(log, Line("Running for", iters', 0))
    /\ i' = 0
    /\ pc' = "test"
    /\ UNCHANGED <<cfg, args, mapped, regs, ier, lsr, txd, rxd, bus, out,
                   status, samples>>

\* stall = false; iters = atoi(argv[optind]); fprintf(...); int i = 0
StartLoop ==
    /\ pc = "start"
    /\ stall' = FALSE
    /\ iters' = Atoi(args[1])
    /\ log' = Append(log, Line("Running for", iters', 0))
    /\ i' = 0
    /\ pc' = "test"
    /\ UNCHANGED <<cfg, args, mapped, regs, ier, lsr, txd, rxd, bus, out,
                   status, samples>>

\* a loop condition that is off by one
LoopCondInclusive == iters < 0 \/ i <= iters

\* the loop condition of a counted loop that knows no "run for ever"
LoopCondCounted == i < iters

\* the loop condition: iters < 0 || i < iters
LoopCond == iters < 0 \/ i < iters

\* for (...; iters < 0 || i < iters; ...)
\* a run without end is followed for MaxPolls iterations
LoopTest ==
    /\ pc = "test"
    /\ iters < 0 => Len(samples) < MaxPolls
    /\ pc' = IF LoopCond THEN "poll" ELSE "terminate"
    /\ UNCHANGED <<cfg, args, mapped, regs, ier, lsr, stall, iters, i, txd,
                   rxd, bus, log, out, status, samples>>

\* lsr = readb(regs, R_LSR);
PollRead ==
    /\ pc = "poll"
    /\ \E v \in LsrSamples :
          /\ lsr' = v
          /\ samples' = Append(samples, v)
    /\ readb(R_LSR)
    /\ pc' = "edge"
    /\ UNCHANGED <<cfg, args, mapped, regs, ier, stall, iters, i, txd, rxd,
                   log, out, status>>

\* any bit of LSR taken as activity
ActiveAnyBit(v) == v # 0

\* (lsr & LSR_DR) || (lsr & LSR_THRE)
Active(v) == BitAnd(v, LSR_DR) # 0 \/ BitAnd(v, LSR_THRE) # 0

\* a level-triggered detector: every inactive sample is logged
EdgeLevel(v, st) == IF Active(v) THEN st ELSE TRUE

\* whether the sample v met in state st (stall) is logged: "if (stall)" on
\* the active branch, "if (!stall)" on the other
Edge(v, st) == IF Active(v) THEN st ELSE ~st

\* a failure that is reported and then ignored
ClockWarn ==
    /\ log' = Append(log, Line("err: clock_gettime", 0, 0))
    /\ stall' = ~Active(lsr)
    /\ pc' = "tx"
    /\ UNCHANGED status

\* rc = clock_gettime(...); if (rc) err(EXIT_FAILURE, "clock_gettime");
ClockFail ==
    /\ Err("err: clock_gettime")
    /\ UNCHANGED stall

\* the stall/resume edge detector; rc is what clock_gettime() returns when
\* a line is to be logged
EdgeDetect ==
    /\ pc = "edge"
    /\ \E rc \in {0, -1} :
          LET kind == IF Active(lsr) THEN "resumed" ELSE "stalled"
          IN  IF Edge(lsr, stall) /\ rc # 0
              THEN ClockFail
              ELSE /\ log' = IF Edge(lsr, stall)
                             THEN Append(log, Line(kind, i, lsr))
                             ELSE log
                   /\ stall' = ~Active(lsr)
                   /\ pc' = "tx"
                   /\ UNCHANGED status
    /\ UNCHANGED <<cfg, args, mapped, regs, ier, lsr, iters, i, txd, rxd,
                   bus, out, samples>>

\* the transmit condition, testing LSR[TEMT] where LSR[THRE] is meant
TxReadyTemt(c, v) == ~c.ignore_tx /\ BitAnd(v, BIT(6)) # 0

\* !cfg.ignore_tx && (lsr & LSR_THRE)
TxReady(c, v) == ~c.ignore_tx /\ BitAnd(v, LSR_THRE) # 0

\* the receive condition without the test of ignore_rx
RxReadyUngated(c, v) == BitAnd(v, LSR_DR) # 0

\* !cfg.ignore_rx && (lsr & LSR_DR)
RxReady(c, v) == ~c.ignore_rx /\ BitAnd(v, LSR_DR) # 0

\* if (!cfg.ignore_tx && (lsr & LSR_THRE)) { writeb(regs, R_THR, 'y'); txd++; }
Transmit ==
    /\ pc = "tx"
    /\ IF TxReady(cfg, lsr)
       THEN /\ writeb(R_THR, FILLER)
            /\ txd' = Bump(txd)
       ELSE UNCHANGED <<bus, regs, txd>>
    /\ pc' = "rx"
    /\ UNCHANGED <<cfg, args, mapped, ier, lsr, stall, iters, i, rxd, log,
                   out, status, samples>>

\* if (!cfg.ignore_rx && (lsr & LSR_DR)) { putchar(readb(regs, R_RBR)); rxd++; }
Receive ==
    /\ pc = "rx"
    /\ IF RxReady(cfg, lsr)
       THEN /\ readb(R_RBR)
            /\ \E b \in RbrBytes : out' = Append(out, b)
            /\ rxd' = Bump(rxd)
       ELSE UNCHANGED <<bus, out, rxd>>
    /\ pc' = "incr"
    /\ UNCHANGED <<cfg, args, mapped, regs, ier, lsr, stall, iters, i, txd,
                   log, status, samples>>

\* an increment that never happens
NextIndexStuck == i

\* an unconditional increment, i++
NextIndexAlways == i + 1

\* the new value of i: i += (iters > 0)
NextIndex == i + (IF iters > 0 THEN 1 ELSE 0)

Increment ==
    /\ pc = "incr"
    /\ i' = NextIndex
    /\ pc' = "test"
    /\ UNCHANGED <<cfg, args, mapped, regs, ier, lsr, stall, iters, txd, rxd,
                   bus, log, out, status, samples>>

\* the counter lines of the final report
Report ==
    (IF ~cfg.ignore_tx THEN <<Line("Transmitted", 0, txd)>> ELSE <<>>)
        \o (IF ~cfg.ignore_rx THEN <<Line("Received", 0, rxd)>> ELSE <<>>)

\* dump_regs() with its header, then the report
TerminatingDump ==
    /\ bus' = bus \o DumpTrace(Len(DumpOffsets))
    /\ log' = log \o <<Line("Terminating configuration", 0, 0),
                       Line("registers", 0, regs)>> \o Report

\* fprintf(stderr, "Terminating configuration\n"); dump_regs(regs);
\* the counter report; exit(EXIT_SUCCESS);
Terminate ==
    /\ pc = "terminate"
    /\ TerminatingDump
    /\ status' = EXIT_SUCCESS
    /\ pc' = "exited"
    /\ UNCHANGED <<cfg, args, mapped, regs, ier, lsr, stall, iters, i, txd,
                   rxd, out, samples>>

Next ==
    \/ OpenMem
    \/ MapRegs
    \/ StartupDump
    \/ CheckArgs
    \/ EnableVuart
    \/ ConfigureIer
    \/ ResetFifos
    \/ IndicateReady
    \/ InitialisedDump
    \/ StartLoop
    \/ LoopTest
    \/ PollRead
    \/ EdgeDetect
    \/ Transmit
    \/ Receive
    \/ Increment
    \/ Terminate

Spec == Init /\ [][Next]_vars

----------------------------------------------------------------------------
(* Vocabulary of the properties *)

LoopPcs == {"test", "poll", "edge", "tx", "rx", "incr"}

\* the stores made so far to the register at offset off
Writes(off) == SelectSeq(bus, LAMBDA e : e.op = "w" /\ e.off = off)

\* the loads made so far from the register at offset off
Reads(off) == SelectSeq(bus, LAMBDA e : e.op = "r" /\ e.off = off)

AllWrites == SelectSeq(bus, LAMBDA e : e.op = "w")

\* the register dumps printed so far
Dumps == SelectSeq(log, LAMBDA l : l.kind = "registers")

\* the lines of the given kind printed so far
Lines(kind) == SelectSeq(log, LAMBDA l : l.kind = kind)

\* the stall/resume lines printed so far
EdgeLines == SelectSeq(log, LAMBDA l : l.kind \in {"stalled", "resumed"})

\* the step appends one line of the given kind to stderr
LogsKind(kind) ==
    /\ Len(log') = Len(log) + 1
    /\ SubSeq(log', 1, Len(log)) = log
    /\ log'[Len(log')].kind = kind

\* clock_gettime() has failed
ClockFailed == Lines("err: clock_gettime") # <<>>

\* number of samples of s with a bit of mask set
CountBit(s, mask) == Cardinality({k \in 1 .. Len(s) : BitAnd(s[k], mask) # 0})

\* the run was given a count and finished its poll loop
LoopEnded == pc = "terminate" \/ (pc = "exited" /\ Lines("Terminating configuration") # <<>>)

----------------------------------------------------------------------------
(* C1: stall/resume logging is edge-triggered *)

\* the sample of the iteration is active: DR or THRE is set
SampleActive == lsr % 2 = 1 \/ (lsr \div 32) % 2 = 1

\* what an iteration logs, as the claim has it
EdgeRule ==
    /\ LogsKind("resumed") <=> (SampleActive /\ stall)
    /\ LogsKind("stalled") <=> (~SampleActive /\ ~stall)
    /\ (~LogsKind("resumed") /\ ~LogsKind("stalled")) => log' = log

\* C1 (as claimed): in every poll iteration a "resumed" line is logged iff the
\* sample is active and the state before was Stalled, a "stalled" line iff the
\* sample is inactive and the state before was Flowing, and nothing otherwise;
\* no other step of the iteration logs anything.
C1_EdgeTriggeredAlways ==
    [][/\ pc = "edge" => EdgeRule
       /\ pc \in LoopPcs \ {"edge"} => log' = log]_vars

\* C1 (amended): the same, for every iteration whose timestamp read succeeds;
\* an iteration whose timestamp read fails logs neither line (it reports the
\* failure and the program exits), and that happens only on an edge.  A run
\* of active samples therefore logs at most one "resumed" line: after an
\* iteration that continues the state is Stalled iff its sample was inactive.
C1_EdgeTriggered ==
    [][/\ (pc = "edge" /\ pc' = "tx") =>
            /\ EdgeRule
            /\ LogsKind("resumed") => log'[Len(log')] = Line("resumed", i, lsr)
            /\ LogsKind("stalled") => log'[Len(log')] = Line("stalled", i, lsr)
            /\ stall' = ~SampleActive
       /\ (pc = "edge" /\ pc' # "tx") =>
            /\ SampleActive = stall
            /\ LogsKind("err: clock_gettime")
            /\ pc' = "exited"
       /\ pc \in LoopPcs \ {"edge"} => log' = log /\ stall' = stall]_vars

\* C1 witness: a second consecutive active sample has been handled after a
\* resume, and the run has logged one "stalled" and exactly one "resumed" line
C1_Witness ==
    /\ pc = "tx"
    /\ Len(samples) = 3
    /\ ~Active(samples[1]) /\ Active(samples[2]) /\ Active(samples[3])
    /\ Len(Lines("resumed")) = 1
    /\ Len(Lines("stalled")) = 1

----------------------------------------------------------------------------
(* C2: the byte counters *)

HasThre(v) == (v \div 32) % 2 = 1

HasDr(v) == v % 2 = 1

\* what the counters should read after the first n samples
TxCount(n) ==
    IF cfg.ignore_tx THEN 0
    ELSE Cardinality({k \in 1 .. n : HasThre(samples[k])})

RxCount(n) ==
    IF cfg.ignore_rx THEN 0
    ELSE Cardinality({k \in 1 .. n : HasDr(samples[k])})

\* C2 (as claimed): whenever no iteration is under way (at the loop test, after
\* the loop, after exit) each counter equals the number of iterations so far
\* whose sample had its bit set (0 when its path is ignored).
C2_CountersEverySample ==
    pc \in {"test", "terminate", "exited"} =>
        /\ txd = TxCount(Len(samples))
        /\ rxd = RxCount(Len(samples))

\* number of samples whose iteration has passed the transmit step, and the
\* receive step; the iteration cut short by a timestamp failure passes neither
TxPassed ==
    Len(samples) - (IF pc \in {"edge", "tx"} \/ ClockFailed THEN 1 ELSE 0)

RxPassed ==
    Len(samples) - (IF pc \in {"edge", "tx", "rx"} \/ ClockFailed THEN 1 ELSE 0)

C2_Inv ==
    /\ txd = TxCount(TxPassed)
    /\ rxd = RxCount(RxPassed)
    /\ LoopEnded =>
          /\ txd = TxCount(Len(samples))
          /\ rxd = RxCount(Len(samples))
          /\ (/\ \A f \in DOMAIN cfg : ~cfg[f]
              /\ \A k \in 1 .. Len(samples) : samples[k] = 33)
                => (txd = iters /\ rxd = iters)

C2_Step ==
    /\ txd' \in {txd, txd + 1}
    /\ rxd' \in {rxd, rxd + 1}
    /\ txd' # txd => pc = "tx"
    /\ rxd' # rxd => pc = "rx"

\* C2 (amended): the counters start at 0, change only in the poll loop, by +1
\* in the transmit (receive) step of an iteration whose sample has THRE (DR)
\* set and whose path is not ignored, and never otherwise; an iteration that
\* a timestamp failure cuts short changes neither.  When the loop ends each
\* counter equals the number of samples with its bit set; with all flags
\* false and every sample showing both bits, both equal the count.
C2_Counters == []C2_Inv /\ [][C2_Step]_vars

\* C2 witness: the loop ended after three iterations with both counters at 2
\* and at least one sample lacking each bit
C2_Witness ==
    /\ LoopEnded
    /\ Len(samples) = 3
    /\ txd = 2 /\ rxd = 2
    /\ \E k \in 1 .. 3 : samples[k] = 66

----------------------------------------------------------------------------
(* C3: a non-negative count runs exactly that many iterations *)

\* steps left before exit, at most: bounds the loop of a run with count >= 0
PcRank ==
    CASE pc = "edge" -> 5
      [] pc = "tx" -> 4
      [] pc = "rx" -> 3
      [] pc = "incr" -> 2
      [] pc = "test" -> 1
      [] pc = "poll" -> 0
      [] pc = "terminate" -> 0
      [] OTHER -> -1

Measure == 6 * (iters - Len(samples)) + PcRank

C3_Inv ==
    /\ (pc \in LoopPcs /\ iters >= 0) =>
          /\ Len(samples) <= iters
          /\ ENABLED Next
    /\ pc = "terminate" => ENABLED Next
    /\ (LoopEnded /\ iters >= 0) =>
          /\ Len(samples) = iters
          /\ Len(Reads(R_LSR)) = iters + Len(Dumps)
    /\ (pc = "exited" /\ LoopEnded) =>
          /\ status = EXIT_SUCCESS
          /\ Len(Dumps) = 3
          /\ Len(Lines("Transmitted")) = (IF cfg.ignore_tx THEN 0 ELSE 1)
          /\ Len(Lines("Received")) = (IF cfg.ignore_rx THEN 0 ELSE 1)
          /\ \A l \in {"Transmitted", "Received"} :
                \A k \in 1 .. Len(Lines(l)) :
                    Lines(l)[k].val = (IF l = "Transmitted" THEN txd ELSE rxd)

C3_Step ==
    (pc \in LoopPcs \cup {"terminate"} /\ iters >= 0) =>
        /\ Measure >= 0
        /\ Measure' < Measure
        /\ pc' = "exited" => (LoopEnded' \/ ClockFailed')

\* C3: with count N >= 0 the loop never starts an (N+1)-th iteration, every
\* step of the loop brings the exit nearer (so the loop terminates), and a
\* loop that ends without a timestamp failure has made exactly N poll reads
\* of LSR and is followed by the terminating dump and the counter report.
C3_ExactlyN == []C3_Inv /\ [][C3_Step]_vars

\* C3 witness: a run asked for MaxIters iterations has exited after its report
C3_Witness ==
    /\ pc = "exited"
    /\ LoopEnded
    /\ iters = MaxIters
    /\ Len(samples) = MaxIters

----------------------------------------------------------------------------
(* C4: a negative count never ends the loop *)

\* C4: with a negative count the loop test always continues: the terminating
\* dump is never reached, and the only exit is a timestamp failure.
C4_NeverTerminates ==
    (iters < 0) =>
        /\ pc # "terminate"
        /\ Lines("Terminating configuration") = <<>>
        /\ pc = "exited" => ClockFailed
        /\ pc \in LoopPcs \ {"test"} => ENABLED Next
        /\ pc = "test" => LoopCond

\* C4 witness: MaxPolls iterations of a run with count -1 are done and the
\* loop is at its test again
C4_Witness ==
    /\ iters = -1
    /\ pc = "test"
    /\ Len(samples) = MaxPolls

----------------------------------------------------------------------------
(* C5: the iteration index of the stall/resume lines *)

LogsEdgeLine == LogsKind("stalled") \/ LogsKind("resumed")

\* C5 (as claimed): every stall/resume line carries the number of iterations
\* completed before the one that logs it, and the index advances by one per
\* iteration, for a negative count too.
C5_IndexCountsIterations ==
    [][/\ (pc = "edge" /\ LogsEdgeLine) =>
             log'[Len(log')].idx = Len(samples) - 1
       /\ pc = "incr" => i' = i + 1]_vars

\* C5 (amended): with a positive count every stall/resume line carries the
\* number of iterations completed before the one that logs it and the index
\* advances by one per iteration; with a negative count the index never
\* advances and every line carries 0.
C5_Index ==
    [][/\ (pc = "edge" /\ LogsEdgeLine) =>
             log'[Len(log')].idx = (IF iters > 0 THEN Len(samples) - 1 ELSE 0)
       /\ pc = "incr" => i' = (IF iters > 0 THEN i + 1 ELSE i)]_vars

\* C5 witness: in a run with a negative count the second iteration has logged
\* a "stalled" line, and it carries index 0
C5_Witness ==
    /\ iters < 0
    /\ pc = "tx"
    /\ Len(samples) = 2
    /\ EdgeLines # <<>>
    /\ EdgeLines[Len(EdgeLines)] = Line("stalled", 0, samples[2])
    /\ Active(samples[1])

----------------------------------------------------------------------------
(* C6: a count of 0 *)

\* the loop has been set up: "Running for %d iterations" is printed
LoopStarted == Lines("Running for") # <<>>

\* C6: with count 0 no iteration runs (no poll read of LSR beyond the dumps',
\* no store to THR, no load from RBR, no stall/resume line, counters 0,
\* nothing on stdout), and the run still exits with success after the
\* startup, initialised and terminating dumps.
C6_ZeroIterations ==
    (LoopStarted /\ iters = 0) =>
        /\ pc \in {"test", "terminate", "exited"}
        /\ samples = <<>>
        /\ Len(Reads(R_LSR)) = Len(Dumps)
        /\ Writes(R_THR) = <<>>
        /\ Reads(R_RBR) = <<>>
        /\ EdgeLines = <<>>
        /\ txd = 0 /\ rxd = 0 /\ out = <<>>
        /\ Len(Lines("Startup configuration")) = 1
        /\ Len(Lines("Initialised configuration")) = 1
        /\ Len(Dumps) >= 2
        /\ pc = "exited" =>
              /\ status = EXIT_SUCCESS
              /\ Len(Lines("Terminating configuration")) = 1
              /\ Len(Dumps) = 3
              /\ Len(Reads(R_GCRH)) = 3

\* C6 witness: the run given "0" has exited after its third dump
C6_Witness ==
    /\ args = <<<<"0">>>>
    /\ pc = "exited"
    /\ LoopStarted
    /\ Len(Dumps) = 3

----------------------------------------------------------------------------
(* C7: the gated configuration steps *)

\* the configurator has run to its end
Configured == pc = "initialised" \/ Lines("Initialised configuration") # <<>>

\* C7: GCRA is written (once, 0x21) iff assume_enabled is clear, FCR (once,
\* 0x07) iff assume_fifos is clear, MCR (once, 0x0b) iff assume_dtr is clear,
\* each whatever the other flags are; none is ever written twice.
C7_GatedSteps ==
    /\ Len(Writes(R_GCRA)) <= 1
    /\ Len(Writes(R_FCR)) <= 1
    /\ Len(Writes(R_MCR)) <= 1
    /\ Configured =>
          /\ Writes(R_GCRA) =
                (IF cfg.assume_enabled THEN <<>> ELSE <<Ev("w", 32, 33)>>)
          /\ Writes(R_FCR) =
                (IF cfg.assume_fifos THEN <<>> ELSE <<Ev("w", 8, 7)>>)
          /\ Writes(R_MCR) =
                (IF cfg.assume_dtr THEN <<>> ELSE <<Ev("w", 16, 11)>>)

\* C7 witness: configured with the FIFO step alone not skipped
C7_Witness ==
    /\ pc = "start"
    /\ cfg.assume_enabled /\ ~cfg.assume_fifos /\ cfg.assume_dtr
    /\ Writes(R_FCR) # <<>>
    /\ Writes(R_GCRA) = <<>>

----------------------------------------------------------------------------
(* C8: the value written to IER *)

\* the reference rule: clear bit 1 unless transmit is ignored, clear bit 0
\* unless receive is ignored; 0 if then neither bit 0 nor bit 1 is set
IerRef(v, itx, irx) ==
    LET w == v - (IF ~itx THEN 2 * ((v \div 2) % 2) ELSE 0)
               - (IF ~irx THEN v % 2 ELSE 0)
    IN  IF w % 4 = 0 THEN 0 ELSE w

\* the IER step of a run with a count is done
PastIer == Dumps # <<>> /\ args # <<>> /\ pc \notin {"args", "enable", "ier"}

\* C8: IER is not written before its step; the step writes, once, the
\* reference value of the value IER held at startup, and IER then holds it.
C8_IerRule ==
    /\ ~PastIer => Writes(R_IER) = <<>>
    /\ PastIer =>
          LET w == IerRef(Dumps[1].val[4], cfg.ignore_tx, cfg.ignore_rx)
          IN  /\ Writes(R_IER) = <<Ev("w", 4, w)>>
              /\ regs[R_IER] = w
              /\ ier = w

\* C8 witness: IER held 0x0c, both paths are ignored, and 0 was written
C8_Witness ==
    /\ PastIer
    /\ cfg.ignore_tx /\ cfg.ignore_rx
    /\ Dumps[1].val[4] = 12
    /\ Writes(R_IER) = <<Ev("w", 4, 0)>>

----------------------------------------------------------------------------
(* C9: every skipping flag set *)

AllSkip == \A f \in DOMAIN cfg : cfg[f]

\* C9 (as claimed): with every flag set the configurator writes no register
\* and every register holds what it held at startup.
C9_InspectOnlyWritesNothing ==
    (AllSkip /\ Configured) =>
        /\ AllWrites = <<>>
        /\ regs = Dumps[1].val

\* C9 (amended): with every flag set the configurator skips the GCRA, FCR and
\* MCR writes but still writes IER back: that is the only register write of
\* the run, its value is the startup value of IER if that has bit 0 or bit 1
\* set and 0 otherwise, and every other register holds what it held at startup.
C9_InspectOnly ==
    (AllSkip /\ Configured) =>
        LET v == Dumps[1].val[4]
            w == IF v % 4 = 0 THEN 0 ELSE v
        IN  /\ AllWrites = <<Ev("w", 4, w)>>
            /\ regs[4] = w
            /\ \A o \in DOMAIN regs \ {4} : regs[o] = Dumps[1].val[o]

\* C9 witness: with every flag set, IER held 0x0c at startup and holds 0
\* after the configurator
C9_Witness ==
    /\ AllSkip
    /\ pc = "start"
    /\ Dumps[1].val[4] = 12
    /\ Dumps[2].val[4] = 0

----------------------------------------------------------------------------
(* C10: failure of the timestamp source *)

\* C10: once clock_gettime() has failed the process has exited with failure;
\* the failure line is the last line on stderr (no terminating dump, no
\* counter report), the poll read of the failing iteration is the last bus
\* access (no transfer in that iteration, no later read), the registers hold
\* what they held after configuration, and no step is left to take.
C10_AbortOnClockFailure ==
    ClockFailed =>
        /\ pc = "exited"
        /\ status = EXIT_FAILURE
        /\ log[Len(log)].kind = "err: clock_gettime"
        /\ Len(Lines("err: clock_gettime")) = 1
        /\ Lines("Terminating configuration") = <<>>
        /\ Lines("Transmitted") = <<>> /\ Lines("Received") = <<>>
        /\ Len(Dumps) = 2
        /\ SubSeq(bus, Len(bus) - 1, Len(bus)) = <<Ev("r", 20, 0), Mb>>
        /\ Len(Reads(20)) = Len(samples) + 2
        /\ Len(Writes(0)) = TxCount(Len(samples) - 1)
        /\ Len(Reads(0)) = RxCount(Len(samples) - 1)
        /\ Len(out) = Len(Reads(0))
        /\ regs = Dumps[2].val
        /\ ~ENABLED Next

\* C10 witness: the timestamp read failed in the second iteration, whose
\* sample had THRE set, after a first iteration that stalled
C10_Witness ==
    /\ ClockFailed
    /\ Len(samples) = 2
    /\ HasThre(samples[2])
    /\ ~cfg.ignore_tx
    /\ Writes(R_GCRA) # <<>>

----------------------------------------------------------------------------
(* C11: failure to obtain the memory region *)

\* the region was not obtained: open() failed, or mmap() returned without
\* a mapping
RegionFailed ==
    \/ Lines("err: open") # <<>>
    \/ ~mapped /\ pc \notin {"open", "mmap"}

\* C11: whenever the memory device could not be opened or could not be
\* mapped, the failure is reported on stderr and the process has exited with
\* failure, with no register access attempted: no bus event, no poll sample
\* and no line but the report
C11_SetupFailureReported ==
    (RegionFailed /\ pc = "exited") =>
        /\ status = EXIT_FAILURE
        /\ \/ log = <<Line("err: open", 0, 0)>>
           \/ log = <<Line("err: mmap", 0, 0)>>
        /\ bus = <<>>
        /\ samples = <<>>

----------------------------------------------------------------------------
(* C12: the three register dumps *)

\* the bus events of one dump: fourteen loads, each with its barrier
DumpBus == DumpTrace(Len(DumpOffsets))

\* dump_regs() is the only reader of GCRH, its last load: the positions in
\* the bus trace at which a dump ends, in order
DumpEnds ==
    SelectSeq([k \in 1 .. Len(bus) |-> k],
              LAMBDA k : bus[k] = Ev("r", R_GCRH, 0))

\* the position at which the dump that ends at p starts
DumpStart(p) == p - (Len(DumpBus) - 2)

\* a complete dump ends at p (the barrier of its last load is at p + 1)
IsDumpEndingAt(p) ==
    /\ DumpStart(p) >= 1
    /\ p + 1 <= Len(bus)
    /\ SubSeq(bus, DumpStart(p), p + 1) = DumpBus

\* the bus events between the first dump and the second (or the end of the
\* trace while there is no second)
ConfigSeg ==
    LET e == DumpEnds
    IN  IF Len(e) = 0 THEN <<>>
        ELSE SubSeq(bus, e[1] + 2,
                    IF Len(e) >= 2 THEN DumpStart(e[2]) - 1 ELSE Len(bus))

\* the bus events between the second dump and the third (or the end of the
\* trace while there is no third)
LoopSeg ==
    LET e == DumpEnds
    IN  IF Len(e) < 2 THEN <<>>
        ELSE SubSeq(bus, e[2] + 2,
                    IF Len(e) >= 3 THEN DumpStart(e[3]) - 1 ELSE Len(bus))

\* a configuration write
IsConfigWrite(e) ==
    e.op = "w" /\ e.off \in {R_GCRA, R_IER, R_FCR, R_MCR}

\* an access of the poll loop: a poll read of LSR or a transfer
IsLoopAccess(e) ==
    e = Ev("r", R_LSR, 0) \/ (e.op # "mb" /\ e.off = R_THR)

\* the run was given a count and has not aborted
CountedRun == args # <<>> /\ mapped /\ status # EXIT_FAILURE

\* C12: in a run that is given a count and does not abort, every read of
\* GCRH ends a complete dump and the log holds one register listing per
\* dump; there are never more than three dumps; the first is the first thing
\* on the bus, so before every configuration write; no access of the poll
\* loop is made between the first dump and the second, and no configuration
\* write after the second, so the second is after the last configuration
\* write and before the first poll read; inside the poll loop exactly two
\* dumps have been made; the third ends the bus trace, so it is after the
\* last iteration, and a run that has exited has made exactly three
C12_ThreeDumps ==
    CountedRun =>
        LET e == DumpEnds
            n == Len(e)
            cs == ConfigSeg
            ls == LoopSeg
        IN  /\ n <= 3
            /\ Len(Dumps) = n
            /\ \A j \in 1 .. n : IsDumpEndingAt(e[j])
            /\ IF n = 0 THEN bus = <<>> ELSE DumpStart(e[1]) = 1
            /\ \A k \in 1 .. Len(cs) : ~IsLoopAccess(cs[k])
            /\ \A k \in 1 .. Len(ls) : ~IsConfigWrite(ls[k])
            /\ pc \in LoopPcs => n = 2
            /\ n = 3 => pc = "exited" /\ e[3] + 1 = Len(bus)
            /\ pc = "exited" => n = 3 /\ status = EXIT_SUCCESS

\* C12 witness: a finished run of three iterations that wrote all four
\* configuration registers and moved bytes in both directions
C12_Witness ==
    /\ CountedRun
    /\ pc = "exited"
    /\ Len(samples) = 3
    /\ Len(SelectSeq(ConfigSeg, IsConfigWrite)) = 4
    /\ Len(SelectSeq(LoopSeg, IsLoopAccess)) > 3
    /\ Writes(R_THR) # <<>>
    /\ Reads(R_RBR) # <<>>
    /\ Len(DumpEnds) = 3

----------------------------------------------------------------------------
(* C13: the status bit of an ignored path *)

\* two LSR values differ at most in the status bit of an ignored path:
\* DR under ignore_rx, THRE under ignore_tx
SameButIgnored(c, v, w) ==
    \A b \in 0 .. 7 :
        (BitAnd(v, BIT(b)) # BitAnd(w, BIT(b))) =>
            \/ BIT(b) = LSR_DR /\ c.ignore_rx
            \/ BIT(b) = LSR_THRE /\ c.ignore_tx

\* the stall/resume lines the edge detector prints for the samples s[k..],
\* entered with stall = st, when every timestamp read succeeds
RECURSIVE EdgeKinds(_, _, _)
EdgeKinds(s, k, st) ==
    IF k > Len(s) THEN <<>>
    ELSE (IF Edge(s[k], st)
          THEN <<IF Active(s[k]) THEN "resumed" ELSE "stalled">>
          ELSE <<>>)
             \o EdgeKinds(s, k + 1, ~Active(s[k]))

\* C13: at the head of the loop, every run with the same flags and count
\* whose samples so far differ from this run's only in the bit of an ignored
\* path made the same transfer decision in every iteration and printed the
\* same sequence of "stalled" and "resumed" lines
C13_IgnoredBitNoInfluence ==
    pc = "test" =>
        \A s \in [1 .. Len(samples) -> LsrSamples] :
            (\A k \in 1 .. Len(samples) :
                SameButIgnored(cfg, samples[k], s[k])) =>
                /\ \A k \in 1 .. Len(samples) :
                      /\ TxReady(cfg, s[k]) = TxReady(cfg, samples[k])
                      /\ RxReady(cfg, s[k]) = RxReady(cfg, samples[k])
                /\ EdgeKinds(s, 1, FALSE)
                       = [k \in 1 .. Len(EdgeLines) |-> EdgeLines[k].kind]

----------------------------------------------------------------------------
(* C14: a run whose samples are all idle *)

\* at least one sample was taken and none has DR or THRE set
AllIdle ==
    /\ samples # <<>>
    /\ \A k \in 1 .. Len(samples) : ~HasDr(samples[k]) /\ ~HasThre(samples[k])

\* the edge detector of the first iteration has been passed
FirstEdgeDone == Len(samples) >= 2 \/ (samples # <<>> /\ pc # "edge")

\* no byte has moved in either direction
NothingTransferred ==
    /\ Writes(R_THR) = <<>>
    /\ Reads(R_RBR) = <<>>
    /\ txd = 0 /\ rxd = 0
    /\ out = <<>>

\* C14 as stated: in a run of idle samples, from the first iteration on the
\* log holds exactly one "stalled" line, with index 0 and the first sample,
\* no "resumed" line, and no byte has moved
C14_IdleRunAlways ==
    (AllIdle /\ FirstEdgeDone) =>
        /\ Lines("stalled") = <<Line("stalled", 0, samples[1])>>
        /\ Lines("resumed") = <<>>
        /\ NothingTransferred

\* C14: in a run of idle samples no byte moves and no "resumed" line is
\* logged; if the timestamp read of the first iteration succeeds the log
\* holds, from the first iteration on, exactly one "stalled" line, with
\* index 0 and the first sample; if it fails the run has ended in its first
\* iteration without a "stalled" line
C14_IdleRun ==
    (AllIdle /\ FirstEdgeDone) =>
        /\ Lines("resumed") = <<>>
        /\ NothingTransferred
        /\ IF ClockFailed
           THEN Lines("stalled") = <<>> /\ Len(samples) = 1
           ELSE Lines("stalled") = <<Line("stalled", 0, samples[1])>>

\* C14 witness: a finished run of three idle samples, with neither path
\* ignored, one of them with other LSR bits set
C14_Witness ==
    /\ AllIdle
    /\ LoopEnded /\ pc = "exited"
    /\ Len(samples) = 3
    /\ \E k \in 1 .. 3 : samples[k] # 0
    /\ ~cfg.ignore_tx /\ ~cfg.ignore_rx
    /\ Len(Lines("stalled")) = 1

----------------------------------------------------------------------------
(* C15: every access is followed by a barrier *)

\* C15: the bus trace alternates strictly between an access and a barrier,
\* beginning with an access and ending with a barrier: every load and every
\* store of a register, whether made by the configurator, by a dump or by
\* the poll loop, is followed at once by a barrier, so two accesses are
\* never adjacent; every access moves one byte
C15_BarrierAfterEveryAccess ==
    /\ Len(bus) % 2 = 0
    /\ \A k \in 1 .. Len(bus) :
          IF k % 2 = 1
          THEN /\ bus[k].op \in {"r", "w"}
               /\ bus[k].val \in Byte
               /\ bus[k + 1] = Mb
          ELSE bus[k] = Mb

\* C15 witness: a finished run that made configuration writes, the
\* read-modify-write of IER, three dumps, and transfers in both directions
C15_Witness ==
    /\ pc = "exited"
    /\ LoopEnded
    /\ Writes(R_GCRA) # <<>> /\ Writes(R_FCR) # <<>> /\ Writes(R_MCR) # <<>>
    /\ Len(Reads(R_IER)) = 4
    /\ Len(Writes(R_THR)) >= 2
    /\ Len(Reads(R_RBR)) >= 2

----------------------------------------------------------------------------
(* C16: the order of the configuration steps *)

\* the place of a configuration register in the order of the configurator
ConfigRank(off) ==
    CASE off = R_GCRA -> 1
      [] off = R_IER -> 2
      [] off = R_FCR -> 3
      [] off = R_MCR -> 4

\* the accesses of the configurator, barriers left out
ConfigAccesses == SelectSeq(ConfigSeg, LAMBDA e : e.op # "mb")

\* the configuration writes made so far, wherever they are on the bus
ConfigWrites == SelectSeq(bus, IsConfigWrite)

\* the accesses the configurator makes under the flags c, given that the
\* value written back to IER is v
ConfigExpected(c, v) ==
    (IF ~c.assume_enabled
     THEN <<Ev("w", R_GCRA, BitOr(GCRA_VUART_EN, GCRA_H_TX_CORK))>> ELSE <<>>)
        \o <<Ev("r", R_IER, 0), Ev("w", R_IER, v)>>
        \o (IF ~c.assume_fifos THEN <<Ev("w", R_FCR, FCR_RESET_ENABLE)>> ELSE <<>>)
        \o (IF ~c.assume_dtr THEN <<Ev("w", R_MCR, MCR_READY)>> ELSE <<>>)

\* s is a prefix of t
IsPrefix(s, t) == Len(s) <= Len(t) /\ s = SubSeq(t, 1, Len(s))

\* C16: at every point the configuration writes made so far are in the
\* order GCRA, IER, FCR, MCR, each register written at most once, and all
\* of them lie between the first dump and the second, so before the first
\* poll read of LSR; the accesses of the configurator so far are a prefix
\* of: the GCRA write unless assume_enabled, the IER read and the IER write,
\* the FCR write unless assume_fifos, the MCR write unless assume_dtr; once
\* the configurator is done they are all of these, for every flag
\* combination
C16_ConfigOrder ==
    LET w == ConfigWrites
        a == ConfigAccesses
    IN  /\ \A j \in 1 .. Len(w) - 1 :
              ConfigRank(w[j].off) < ConfigRank(w[j + 1].off)
        /\ w = SelectSeq(ConfigSeg, IsConfigWrite)
        /\ Len(DumpEnds) < 2 => samples = <<>>
        /\ IsPrefix(a, ConfigExpected(cfg, ier))
        /\ Configured => a = ConfigExpected(cfg, ier)

\* C16 witness: the loop is running, after a configurator that skipped the
\* FIFO reset alone
C16_Witness ==
    /\ pc = "incr"
    /\ ~cfg.assume_enabled /\ cfg.assume_fifos /\ ~cfg.assume_dtr
    /\ Len(ConfigWrites) = 3
    /\ Len(samples) = 1

----------------------------------------------------------------------------
(* C17: the shape of a poll iteration *)

\* the bus events of a whole iteration that samples v under the flags c:
\* the LSR read; the filler written to THR iff transmit is not ignored and
\* v has THRE; RBR read iff receive is not ignored and v has DR
IterShape(c, v) ==
    <<Ev("r", R_LSR, 0), Mb>>
        \o (IF ~c.ignore_tx /\ HasThre(v)
            THEN <<Ev("w", R_THR, FILLER), Mb>> ELSE <<>>)
        \o (IF ~c.ignore_rx /\ HasDr(v)
            THEN <<Ev("r", R_RBR, 0), Mb>> ELSE <<>>)

\* the bus events of the first n iterations, each of the whole shape
RECURSIVE IterShapes(_)
IterShapes(n) ==
    IF n = 0 THEN <<>>
    ELSE IterShapes(n - 1) \o IterShape(cfg, samples[n])

\* no iteration is under way: the last one is through its receive step, or
\* the process has exited
BetweenIterations == pc \in {"incr", "test", "terminate", "exited"}

\* C17 as stated: between iterations the accesses of the poll loop are, for
\* each sample in turn, the whole shape of its iteration, and the bytes on
\* stdout are as many as the reads of RBR
C17_IterationShapeAlways ==
    (LoopStarted /\ BetweenIterations) =>
        /\ LoopSeg = IterShapes(Len(samples))
        /\ Len(out) = Len(Reads(R_RBR))

\* C17: between iterations the accesses of the poll loop are, for each
\* sample in turn, the whole shape of its iteration, except that an
\* iteration whose timestamp read failed is its LSR read alone; inside an
\* iteration they are the whole shapes of the earlier iterations followed
\* by a prefix of the shape of the current one; the bytes on stdout are as
\* many as the reads of RBR
C17_IterationShape ==
    LoopStarted =>
        LET n == Len(samples)
        IN  /\ Len(out) = Len(Reads(R_RBR))
            /\ (BetweenIterations /\ ~ClockFailed) => LoopSeg = IterShapes(n)
            /\ ClockFailed =>
                  LoopSeg = IterShapes(n - 1) \o <<Ev("r", R_LSR, 0), Mb>>
            /\ pc \in {"edge", "tx"} =>
                  LoopSeg = IterShapes(n - 1) \o <<Ev("r", R_LSR, 0), Mb>>
            /\ pc = "rx" =>
                  LoopSeg = IterShapes(n - 1)
                      \o IterShape([cfg EXCEPT !.ignore_rx = TRUE], samples[n])
            /\ pc = "poll" => LoopSeg = IterShapes(n)

\* C17 witness: a finished run with neither path ignored in which one
\* iteration moved a byte in both directions, one in neither, and one
\* transmitted only
C17_Witness ==
    /\ pc = "exited"
    /\ LoopEnded
    /\ ~cfg.ignore_tx /\ ~cfg.ignore_rx
    /\ samples = <<33, 66, 32>>
    /\ Len(out) = 1

----------------------------------------------------------------------------
(* C18: stall/resume lines alternate *)

\* the edge detector of the latest iteration has run to its end
LastEdgeDone ==
    /\ samples # <<>>
    /\ ~ClockFailed
    /\ pc \in {"tx", "rx", "incr", "test", "terminate", "exited"}

\* C18: the stall/resume lines are "stalled", "resumed", "stalled", ... in
\* turn, beginning with "stalled"; the number of "stalled" lines less the
\* number of "resumed" lines is 0 or 1, and it is 1 exactly when stall is
\* set; the loop is entered with stall clear; and once the edge detector of
\* an iteration is done, stall is set iff the sample of that iteration has
\* neither DR nor THRE
C18_Alternation ==
    LET d == Len(Lines("stalled")) - Len(Lines("resumed"))
    IN  /\ \A k \in 1 .. Len(EdgeLines) :
              EdgeLines[k].kind = IF k % 2 = 1 THEN "stalled" ELSE "resumed"
        /\ d \in {0, 1}
        /\ d = 1 <=> stall
        /\ samples = <<>> => ~stall
        /\ LastEdgeDone =>
              (stall <=> (~HasDr(samples[Len(samples)])
                              /\ ~HasThre(samples[Len(samples)])))

\* C18 witness: a finished run that stalled, resumed and stalled again
C18_Witness ==
    /\ pc = "exited"
    /\ LoopEnded
    /\ Len(EdgeLines) = 3
    /\ stall
    /\ Len(samples) = 3

----------------------------------------------------------------------------
(* C19: the counters against the bus *)

\* accesses of offset 0x00 (THR on a store, RBR on a load) in a trace
DataAccesses(t) == SelectSeq(t, LAMBDA e : e.op # "mb" /\ e.off = R_THR)

\* the counters agree with the bus trace and with stdout
C19_Inv ==
    /\ txd = Len(Writes(R_THR))
    /\ rxd = Len(Reads(R_RBR))
    /\ rxd = Len(out)
    /\ DataAccesses(bus) = DataAccesses(LoopSeg)

\* a step outside the poll loop (setup, a dump, the configurator) leaves the
\* accesses of offset 0x00 and the counters as they are, and a dump step
\* adds no write
C19_Step ==
    /\ pc \notin LoopPcs =>
          /\ DataAccesses(bus') = DataAccesses(bus)
          /\ txd' = txd /\ rxd' = rxd /\ out' = out
    /\ pc \in {"startup", "initialised", "terminate"} =>
          SelectSeq(bus', LAMBDA e : e.op = "w") = AllWrites

\* C19: at every point txd is the number of stores to offset 0x00 so far,
\* rxd the number of loads of offset 0x00 so far and the number of bytes on
\* stdout; every access of offset 0x00 lies in the poll loop, no step of the
\* configurator or of a dump makes one, and no dump step makes a write
C19_CountersMatchBus == []C19_Inv /\ [][C19_Step]_vars

\* C19 witness: a finished run with different non-zero counters
C19_Witness ==
    /\ pc = "exited"
    /\ LoopEnded
    /\ txd = 3
    /\ rxd = 1
    /\ Len(DumpEnds) = 3
    /\ AllWrites # Writes(R_THR)

----------------------------------------------------------------------------
(* C20: no count argument *)

\* C20: in a run without a count argument, whatever the flags, nothing is
\* ever written to a register, no poll sample is taken, the bus holds
\* nothing but the startup dump, the control never enters the configurator
\* or the loop, and no line of a second or third dump or of the counter
\* report is printed; once the region is mapped the run ends with exit
\* status success, the startup dump made in full, the registers as they
\* were dumped, and nothing on stdout
C20_NoCountInspectOnly ==
    args = <<>> =>
        /\ AllWrites = <<>>
        /\ samples = <<>>
        /\ bus \in {<<>>, DumpBus}
        /\ pc \in {"open", "mmap", "startup", "args", "exited"}
        /\ Len(Dumps) <= 1
        /\ \A k \in 1 .. Len(log) :
              log[k].kind \notin {"Initialised configuration", "Running for",
                                  "Terminating configuration",
                                  "Transmitted", "Received",
                                  "stalled", "resumed"}
        /\ txd = 0 /\ rxd = 0 /\ out = <<>>
        /\ (pc = "exited" /\ mapped) =>
              /\ status = EXIT_SUCCESS
              /\ bus = DumpBus
              /\ log = <<Line("Startup configuration", 0, 0),
                         Line("registers", 0, regs)>>
              /\ ~ENABLED Next

\* C20 witness: a run without a count, with some flags set and the enable
\* and FIFO steps not skipped, has exited after its startup dump
C20_Witness ==
    /\ args = <<>>
    /\ pc = "exited"
    /\ status = EXIT_SUCCESS
    /\ Len(Dumps) = 1
    /\ cfg.ignore_tx /\ cfg.assume_dtr
    /\ ~cfg.assume_enabled /\ ~cfg.assume_fifos

====
